---- MODULE Spec2Model ----
(***************************************************************************)
(* Update resolution and batch orchestration of the package-manager client *)
(* (AppInstallerCLICore/Workflows/UpdateFlow.cpp).                         *)
(*                                                                         *)
(* Two flows are modelled:                                                 *)
(*   SpecSelect : the single-package upgrade flows, i.e. the step          *)
(*                SelectLatestApplicableUpdate and the re-validation step  *)
(*                EnsureUpdateVersionApplicable on one context;            *)
(*   Spec       : UpdateAllApplicable, one action per loop iteration and   *)
(*                one for the code after the loop.                         *)
(***************************************************************************)
EXTENDS Integers, Sequences, FiniteSets, TLC

VARIABLES
    context,              \* the (parent) Execution::Context: [data, hr]
    out,                  \* lines written to the shared Reporter, in order
    pc,                   \* position of the running flow
    scan,                 \* locals of the last SelectLatestApplicableUpdate run
    i,                    \* number of matches the loop of UpdateAllApplicable has taken
    packagesToInstall,    \* local vector of UpdateAllApplicable
    updateAllFoundUpdate, \* local flag of UpdateAllApplicable
    updateContexts,       \* the clones, as each was left by its pipeline
    installCalls          \* invocations of InstallMultiplePackages

vars == <<context, out, pc, scan, i, packagesToInstall, updateAllFoundUpdate,
          updateContexts, installCalls>>

----------------------------------------------------------------------------
\* Bounds of the model.

\* version numbers are 0..MaxVersion
MaxVersion == 2
\* installer entries of one package, summed over its versions
MaxInstallers == 3
\* matches of one search result
MaxMatches == 3

----------------------------------------------------------------------------
\* Vocabulary.

S_OK == "S_OK"
APPINSTALLER_CLI_ERROR_UPDATE_NOT_APPLICABLE == "APPINSTALLER_CLI_ERROR_UPDATE_NOT_APPLICABLE"
APPINSTALLER_CLI_ERROR_UPDATE_ALL_HAS_FAILURE == "APPINSTALLER_CLI_ERROR_UPDATE_ALL_HAS_FAILURE"
\* any termination that is not one of the codes of this file
E_FAIL == "E_FAIL"

UpgradeDifferentInstallTechnologyInNewerVersions == "UpgradeDifferentInstallTechnologyInNewerVersions"
UpdateNotApplicable == "UpdateNotApplicable"
InstallAndUpgradeCommandsReportDependencies == "InstallAndUpgradeCommandsReportDependencies"

InstalledType == "InstalledType"
MachineArchitecture == "MachineArchitecture"
InapplicabilityFlags == {InstalledType, MachineArchitecture}

PackageIds == {"A", "B"}
SourceIds == {"S1", "S2"}
Locales == {"en-US"}

----------------------------------------------------------------------------
\* Utility::Version: a number standing for the compared components, and the
\* flag IsLatest() reads.

Versions == [n : 0..MaxVersion, latest : BOOLEAN]

Version(n, latest) == [n |-> n, latest |-> latest]

VersionLess(a, b) == a.n < b.n

IsLatest(v) == v.latest

----------------------------------------------------------------------------
\* Catalog objects.

\* An installer entry of a manifest: the reasons ManifestComparator finds
\* against it for the installed metadata (none: it qualifies), and its locale.
Installers == [Inapplicability : SUBSET InapplicabilityFlags, Locale : Locales]

InstallerLists(m) == [1..m -> Installers]

\* the ways of giving k versions at least one installer each, at most
\* MaxInstallers in all
RECURSIVE InstallerCounts(_, _)
InstallerCounts(k, budget) ==
    IF k = 0 THEN {<<>>}
    ELSE UNION {{<<c>> \o rest : rest \in InstallerCounts(k - 1, budget - c)}
                : c \in 1..(budget - (k - 1))}

\* version numbers strictly descending: the order the catalog sorts keys in
RECURSIVE DescendingNumbers(_, _)
DescendingNumbers(k, top) ==
    IF k = 0 THEN {<<>>}
    ELSE UNION {{<<n>> \o rest : rest \in DescendingNumbers(k - 1, n - 1)}
                : n \in (k - 1)..top}

\* at most one key of a package is the "latest" sentinel
LatestMarks(k) == {[j \in 1..k |-> j = m] : m \in 0..k}

\* installer lists of the given lengths, one per version
RECURSIVE InstallerAssignments(_)
InstallerAssignments(cs) ==
    IF cs = <<>> THEN {<<>>}
    ELSE {<<il>> \o rest : il \in InstallerLists(Head(cs)),
                           rest \in InstallerAssignments(Tail(cs))}

\* Package::GetAvailableVersionKeys with what each key resolves to
VersionKeyLists ==
    UNION {{[j \in 1..k |-> [Version |-> Version(ns[j], ls[j]), Installers |-> ins[j]]]
              : ns \in DescendingNumbers(k, MaxVersion),
                ls \in LatestMarks(k),
                ins \in UNION {InstallerAssignments(cs) : cs \in InstallerCounts(k, MaxInstallers)}}
           : k \in 0..(MaxVersion + 1)}

\* IPackage: identity, source, the installed version (<<v>>, or
\* NoInstalledVersion when the installed-package store cannot resolve it) and
\* the available keys
NoInstalledVersion == <<>>

Package(id, source, installed, keys) ==
    [Id |-> id, SourceIdentifier |-> source, Installed |-> installed, VersionKeys |-> keys]

\* IPackageVersion::GetManifest
GetManifest(package, key) ==
    [Id |-> package.Id, Version |-> key.Version, Installers |-> key.Installers,
     Locale |-> "default"]

\* IPackage::GetAvailableVersion
GetAvailableVersion(package, key) ==
    [Id |-> package.Id, Version |-> key.Version,
     SourceIdentifier |-> package.SourceIdentifier,
     Manifest |-> GetManifest(package, key)]

\* IPackage::GetInstalledVersion
GetInstalledVersion(package) ==
    [Id |-> package.Id, Version |-> package.Installed[1]]

\* Manifest::ApplyLocale
ApplyLocale(manifest, locale) == [manifest EXCEPT !.Locale = locale]

----------------------------------------------------------------------------
\* ManifestComparator::GetPreferredInstaller: the first installer nothing
\* speaks against, and the reasons against each rejected installer.

Qualifying(manifest) ==
    {j \in DOMAIN manifest.Installers : manifest.Installers[j].Inapplicability = {}}

Min(S) == CHOOSE x \in S : \A y \in S : x <= y

GetPreferredInstaller(manifest) ==
    LET rejected == SelectSeq(manifest.Installers, LAMBDA x : x.Inapplicability # {})
        inapplicabilities == [j \in DOMAIN rejected |-> rejected[j].Inapplicability]
    IN  IF Qualifying(manifest) # {}
        THEN [has_value |-> TRUE,
              installer |-> manifest.Installers[Min(Qualifying(manifest))],
              inapplicabilities |-> inapplicabilities]
        ELSE [has_value |-> FALSE,
              inapplicabilities |-> inapplicabilities]

----------------------------------------------------------------------------
\* Execution::Context: a data store and a termination slot.  The Reporter is
\* shared by a context and its clones: it is the variable out.

EmptyData == [k \in {} |-> TRUE]

NewContext == [data |-> EmptyData, hr |-> S_OK]

Add(ctx, key, value) == [ctx EXCEPT !.data = (key :> value) @@ @]

Contains(ctx, key) == key \in DOMAIN ctx.data

Get(ctx, key) == ctx.data[key]

GetTerminationHR(ctx) == ctx.hr

IsTerminated(ctx) == ctx.hr # S_OK

\* AICLI_TERMINATE_CONTEXT
Terminate(ctx, hr) == [ctx EXCEPT !.hr = hr]

\* Context::Clone: an own data store and termination slot
Clone(ctx) == NewContext

----------------------------------------------------------------------------
\* UpdateFlow.cpp, the anonymous namespace.

\* variants of IsUpdateVersionApplicable with a plausible slip: <= for <, and
\* the latest sentinel forgotten
IsUpdateVersionApplicable_OrEqual(installedVersion, updateVersion) ==
    ~VersionLess(updateVersion, installedVersion) \/ IsLatest(updateVersion)

IsUpdateVersionApplicable_NoLatest(installedVersion, updateVersion) ==
    VersionLess(installedVersion, updateVersion)

\* variant: the operands of < exchanged
IsUpdateVersionApplicable_Reversed(installedVersion, updateVersion) ==
    VersionLess(updateVersion, installedVersion) \/ IsLatest(updateVersion)

IsUpdateVersionApplicable(installedVersion, updateVersion) ==
    VersionLess(installedVersion, updateVersion) \/ IsLatest(updateVersion)

SameEntry(existing, package) ==
    /\ existing.Manifest.Id = package.Manifest.Id
    /\ existing.Manifest.Version = package.Manifest.Version
    /\ existing.PackageVersion.SourceIdentifier = package.PackageVersion.SourceIdentifier

\* variant: no check for an entry already present
AddToPackagesToInstallIfNotPresent_Always(packages, package) ==
    Append(packages, package)

\* variant: a new entry put at the front of the list
AddToPackagesToInstallIfNotPresent_Prepend(packages, package) ==
    IF \E j \in DOMAIN packages : SameEntry(packages[j], package)
    THEN packages
    ELSE <<package>> \o packages

AddToPackagesToInstallIfNotPresent(packages, package) ==
    IF \E j \in DOMAIN packages : SameEntry(packages[j], package)
    THEN packages
    ELSE Append(packages, package)

----------------------------------------------------------------------------
\* SelectLatestApplicableUpdate::operator()

\* the locals before the loop
NoScan ==
    [updateFound |-> FALSE, installedTypeInapplicable |-> FALSE,
     examined |-> <<>>, resolved |-> <<>>, reportUpdateNotFound |-> FALSE]

\* variant: a test of the InstalledType bit instead of equality
FindInstalledType_AnyFlag(inapplicabilities) ==
    \E j \in DOMAIN inapplicabilities : InstalledType \in inapplicabilities[j]

\* std::find(inapplicabilities.begin(), inapplicabilities.end(), InstalledType)
\* finds an element that is the InstalledType flag and nothing else
FindInstalledType(inapplicabilities) ==
    \E j \in DOMAIN inapplicabilities : inapplicabilities[j] = {InstalledType}

\* variants of the loop: a break where the code continues to the next key,
\* and a continue where the code breaks
ScanVersionKeys_StopAtRejected(package, installedVersion, k, st) ==
    IF k > Len(package.VersionKeys) THEN st
    ELSE
    LET key == package.VersionKeys[k]
        checked == [st EXCEPT !.locals.examined = Append(@, k)]
    IN  IF IsUpdateVersionApplicable(installedVersion, key.Version)
        THEN LET packageVersion == GetAvailableVersion(package, key)
                 manifest == packageVersion.Manifest
                 selection == GetPreferredInstaller(manifest)
                 resolved == [checked EXCEPT !.locals.resolved = Append(@, k)]
             IN  IF ~selection.has_value
                 THEN [resolved EXCEPT !.locals.installedTypeInapplicable =
                            @ \/ FindInstalledType(selection.inapplicabilities)]
                 ELSE [locals |-> [resolved.locals EXCEPT !.updateFound = TRUE],
                       ctx |-> Add(Add(Add(resolved.ctx,
                                   "Manifest", ApplyLocale(manifest, selection.installer.Locale)),
                                   "PackageVersion", packageVersion),
                                   "Installer", selection.installer)]
        ELSE checked

RECURSIVE ScanVersionKeys_ContinueAfterInapplicable(_, _, _, _)
ScanVersionKeys_ContinueAfterInapplicable(package, installedVersion, k, st) ==
    IF k > Len(package.VersionKeys) THEN st
    ELSE
    LET key == package.VersionKeys[k]
        checked == [st EXCEPT !.locals.examined = Append(@, k)]
    IN  IF IsUpdateVersionApplicable(installedVersion, key.Version)
        THEN LET packageVersion == GetAvailableVersion(package, key)
                 manifest == packageVersion.Manifest
                 selection == GetPreferredInstaller(manifest)
                 resolved == [checked EXCEPT !.locals.resolved = Append(@, k)]
             IN  IF ~selection.has_value
                 THEN ScanVersionKeys_ContinueAfterInapplicable(package, installedVersion, k + 1,
                        [resolved EXCEPT !.locals.installedTypeInapplicable =
                            @ \/ FindInstalledType(selection.inapplicabilities)])
                 ELSE [locals |-> [resolved.locals EXCEPT !.updateFound = TRUE],
                       ctx |-> Add(Add(Add(resolved.ctx,
                                   "Manifest", ApplyLocale(manifest, selection.installer.Locale)),
                                   "PackageVersion", packageVersion),
                                   "Installer", selection.installer)]
        ELSE ScanVersionKeys_ContinueAfterInapplicable(package, installedVersion, k + 1, checked)

\* The loop over the version keys, from key number k on.  st holds the
\* locals (with the indices of the keys whose version was checked and of the
\* keys resolved to a manifest) and the context.
RECURSIVE ScanVersionKeys(_, _, _, _)
ScanVersionKeys(package, installedVersion, k, st) ==
    IF k > Len(package.VersionKeys) THEN st
    ELSE
    LET key == package.VersionKeys[k]
        checked == [st EXCEPT !.locals.examined = Append(@, k)]
    IN  IF IsUpdateVersionApplicable(installedVersion, key.Version)
        THEN LET packageVersion == GetAvailableVersion(package, key)
                 manifest == packageVersion.Manifest
                 selection == GetPreferredInstaller(manifest)
                 resolved == [checked EXCEPT !.locals.resolved = Append(@, k)]
             IN  IF ~selection.has_value
                 THEN ScanVersionKeys(package, installedVersion, k + 1,
                        [resolved EXCEPT !.locals.installedTypeInapplicable =
                            @ \/ FindInstalledType(selection.inapplicabilities)])
                 ELSE [locals |-> [resolved.locals EXCEPT !.updateFound = TRUE],
                       ctx |-> Add(Add(Add(resolved.ctx,
                                   "Manifest", ApplyLocale(manifest, selection.installer.Locale)),
                                   "PackageVersion", packageVersion),
                                   "Installer", selection.installer)]
        ELSE checked

\* the message of lines 91-98
NotFoundMessage(installedTypeInapplicable) ==
    IF installedTypeInapplicable
    THEN UpgradeDifferentInstallTechnologyInNewerVersions
    ELSE UpdateNotApplicable

\* variants of the step: no termination when no update is found, and the
\* flavored message written although an update was found
SelectLatestApplicableUpdate_NoTerminate(ctx, sink, m_reportUpdateNotFound) ==
    LET package == Get(ctx, "Package")
        installedPackage == Get(ctx, "InstalledPackageVersion")
        installedVersion == installedPackage.Version
        st == ScanVersionKeys(package, installedVersion, 1,
                [locals |-> [NoScan EXCEPT !.reportUpdateNotFound = m_reportUpdateNotFound],
                 ctx |-> ctx])
    IN  IF ~st.locals.updateFound
        THEN [ctx |-> st.ctx,
              out |-> IF m_reportUpdateNotFound
                      THEN Append(sink, NotFoundMessage(st.locals.installedTypeInapplicable))
                      ELSE sink,
              locals |-> st.locals]
        ELSE [ctx |-> st.ctx, out |-> sink, locals |-> st.locals]

SelectLatestApplicableUpdate_ReportsWhenFound(ctx, sink, m_reportUpdateNotFound) ==
    LET package == Get(ctx, "Package")
        installedPackage == Get(ctx, "InstalledPackageVersion")
        installedVersion == installedPackage.Version
        st == ScanVersionKeys(package, installedVersion, 1,
                [locals |-> [NoScan EXCEPT !.reportUpdateNotFound = m_reportUpdateNotFound],
                 ctx |-> ctx])
    IN  IF ~st.locals.updateFound
        THEN [ctx |-> Terminate(st.ctx, APPINSTALLER_CLI_ERROR_UPDATE_NOT_APPLICABLE),
              out |-> IF m_reportUpdateNotFound
                      THEN Append(sink, NotFoundMessage(st.locals.installedTypeInapplicable))
                      ELSE sink,
              locals |-> st.locals]
        ELSE [ctx |-> st.ctx,
              out |-> IF m_reportUpdateNotFound /\ st.locals.installedTypeInapplicable
                      THEN Append(sink, UpgradeDifferentInstallTechnologyInNewerVersions)
                      ELSE sink,
              locals |-> st.locals]

\* variants of the step: the message written whatever m_reportUpdateNotFound
\* is, and the termination with the code of the batch
SelectLatestApplicableUpdate_IgnoresReportFlag(ctx, sink, m_reportUpdateNotFound) ==
    LET package == Get(ctx, "Package")
        installedPackage == Get(ctx, "InstalledPackageVersion")
        installedVersion == installedPackage.Version
        st == ScanVersionKeys(package, installedVersion, 1,
                [locals |-> [NoScan EXCEPT !.reportUpdateNotFound = m_reportUpdateNotFound],
                 ctx |-> ctx])
    IN  IF ~st.locals.updateFound
        THEN [ctx |-> Terminate(st.ctx, APPINSTALLER_CLI_ERROR_UPDATE_NOT_APPLICABLE),
              out |-> Append(sink, NotFoundMessage(st.locals.installedTypeInapplicable)),
              locals |-> st.locals]
        ELSE [ctx |-> st.ctx, out |-> sink, locals |-> st.locals]

SelectLatestApplicableUpdate_WrongCode(ctx, sink, m_reportUpdateNotFound) ==
    LET package == Get(ctx, "Package")
        installedPackage == Get(ctx, "InstalledPackageVersion")
        installedVersion == installedPackage.Version
        st == ScanVersionKeys(package, installedVersion, 1,
                [locals |-> [NoScan EXCEPT !.reportUpdateNotFound = m_reportUpdateNotFound],
                 ctx |-> ctx])
    IN  IF ~st.locals.updateFound
        THEN [ctx |-> Terminate(st.ctx, APPINSTALLER_CLI_ERROR_UPDATE_ALL_HAS_FAILURE),
              out |-> IF m_reportUpdateNotFound
                      THEN Append(sink, NotFoundMessage(st.locals.installedTypeInapplicable))
                      ELSE sink,
              locals |-> st.locals]
        ELSE [ctx |-> st.ctx, out |-> sink, locals |-> st.locals]

\* The whole step: the context and the Reporter output it leaves, and its locals.
SelectLatestApplicableUpdate(ctx, sink, m_reportUpdateNotFound) ==
    LET package == Get(ctx, "Package")
        installedPackage == Get(ctx, "InstalledPackageVersion")
        installedVersion == installedPackage.Version
        st == ScanVersionKeys(package, installedVersion, 1,
                [locals |-> [NoScan EXCEPT !.reportUpdateNotFound = m_reportUpdateNotFound],
                 ctx |-> ctx])
    IN  IF ~st.locals.updateFound
        THEN [ctx |-> Terminate(st.ctx, APPINSTALLER_CLI_ERROR_UPDATE_NOT_APPLICABLE),
              out |-> IF m_reportUpdateNotFound
                      THEN Append(sink, NotFoundMessage(st.locals.installedTypeInapplicable))
                      ELSE sink,
              locals |-> st.locals]
        ELSE [ctx |-> st.ctx, out |-> sink, locals |-> st.locals]

----------------------------------------------------------------------------
\* EnsureUpdateVersionApplicable

\* variant: a version check of its own, without the latest sentinel
EnsureUpdateVersionApplicable_OwnCheck(ctx, sink) ==
    LET installedPackage == Get(ctx, "InstalledPackageVersion")
        installedVersion == installedPackage.Version
        updateVersion == Get(ctx, "Manifest").Version
    IN  IF ~VersionLess(installedVersion, updateVersion)
        THEN [ctx |-> Terminate(ctx, APPINSTALLER_CLI_ERROR_UPDATE_NOT_APPLICABLE),
              out |-> Append(sink, UpdateNotApplicable)]
        ELSE [ctx |-> ctx, out |-> sink]

EnsureUpdateVersionApplicable(ctx, sink) ==
    LET installedPackage == Get(ctx, "InstalledPackageVersion")
        installedVersion == installedPackage.Version
        updateVersion == Get(ctx, "Manifest").Version
    IN  IF ~IsUpdateVersionApplicable(installedVersion, updateVersion)
        THEN [ctx |-> Terminate(ctx, APPINSTALLER_CLI_ERROR_UPDATE_NOT_APPLICABLE),
              out |-> Append(sink, UpdateNotApplicable)]
        ELSE [ctx |-> ctx, out |-> sink]

----------------------------------------------------------------------------
\* The single-package flows: "upgrade <package>" runs
\* SelectLatestApplicableUpdate(true) on the context, "upgrade <package>
\* --version v" puts the manifest of v in the context and has
\* EnsureUpdateVersionApplicable check it.

SelectPackages ==
    {Package(id, source, installed, keys) :
        id \in {"A"}, source \in {"S1"}, installed \in {<<v>> : v \in Versions},
        keys \in VersionKeyLists}

InitSelect ==
    /\ \E package \in SelectPackages :
          context = Add(Add(NewContext, "Package", package),
                        "InstalledPackageVersion", GetInstalledVersion(package))
    /\ out = <<>>
    /\ pc = "select"
    /\ scan = NoScan
    /\ i = 0
    /\ packagesToInstall = <<>>
    /\ updateAllFoundUpdate = FALSE
    /\ updateContexts = <<>>
    /\ installCalls = <<>>

\* the pipeline runs a step only on a context that is not terminated
RunSelectLatestApplicableUpdate ==
    /\ pc = "select"
    /\ ~IsTerminated(context)
    /\ \E m_reportUpdateNotFound \in BOOLEAN :
          LET r == SelectLatestApplicableUpdate(context, out, m_reportUpdateNotFound)
          IN  /\ context' = r.ctx
              /\ out' = r.out
              /\ scan' = r.locals
    /\ pc' = "selected"
    /\ UNCHANGED <<i, packagesToInstall, updateAllFoundUpdate, updateContexts, installCalls>>

\* GetManifestFromPackage for a version the user names
RunGetManifest ==
    /\ pc = "select"
    /\ ~IsTerminated(context)
    /\ \E k \in DOMAIN Get(context, "Package").VersionKeys :
          LET package == Get(context, "Package")
              packageVersion == GetAvailableVersion(package, package.VersionKeys[k])
          IN  context' = Add(Add(context, "Manifest", packageVersion.Manifest),
                             "PackageVersion", packageVersion)
    /\ pc' = "manifest"
    /\ UNCHANGED <<out, scan, i, packagesToInstall, updateAllFoundUpdate, updateContexts,
                   installCalls>>

RunEnsureUpdateVersionApplicable ==
    /\ pc \in {"selected", "manifest"}
    /\ ~IsTerminated(context)
    /\ LET r == EnsureUpdateVersionApplicable(context, out)
       IN  /\ context' = r.ctx
           /\ out' = r.out
    /\ pc' = IF pc = "selected" THEN "selected-ensured" ELSE "ensured"
    /\ UNCHANGED <<scan, i, packagesToInstall, updateAllFoundUpdate, updateContexts,
                   installCalls>>

NextSelect ==
    \/ RunSelectLatestApplicableUpdate
    \/ RunGetManifest
    \/ RunEnsureUpdateVersionApplicable

SpecSelect == InitSelect /\ [][NextSelect]_vars

----------------------------------------------------------------------------
\* UpdateAllApplicable

\* the packages a search can match: for each identity and source, one with a
\* newer version to install, one whose newest version has only an installer
\* of another technology above an installable one, one that is current, one
\* whose only newer version has no installer for it, and one whose installed
\* version the store fails to resolve
Key(n, inapplicability) ==
    [Version |-> Version(n, FALSE),
     Installers |-> <<[Inapplicability |-> inapplicability, Locale |-> "en-US"]>>]

CatalogEntries ==
    {[Installed |-> <<Version(1, FALSE)>>, VersionKeys |-> <<Key(2, {}), Key(1, {})>>],
     [Installed |-> <<Version(0, FALSE)>>, VersionKeys |-> <<Key(2, {InstalledType}), Key(1, {})>>],
     [Installed |-> <<Version(2, FALSE)>>, VersionKeys |-> <<Key(2, {}), Key(1, {})>>],
     [Installed |-> <<Version(1, FALSE)>>, VersionKeys |-> <<Key(2, {InstalledType}), Key(1, {})>>],
     [Installed |-> NoInstalledVersion, VersionKeys |-> <<Key(2, {})>>]}

SearchablePackages ==
    {Package(id, source, entry.Installed, entry.VersionKeys) :
        id \in PackageIds, source \in SourceIds, entry \in CatalogEntries}

SearchResults ==
    UNION {[1..n -> [Package : SearchablePackages]] : n \in 0..MaxMatches}

\* Workflow::GetInstalledPackageVersion: adds the installed version, or
\* terminates the context when the store cannot resolve it
GetInstalledPackageVersion(ctx) ==
    LET package == Get(ctx, "Package")
    IN  IF package.Installed = NoInstalledVersion
        THEN Terminate(ctx, E_FAIL)
        ELSE Add(ctx, "InstalledPackageVersion", GetInstalledVersion(package))

\* variant: the per-item step constructed with reporting enabled
ReportUpdateNotFoundInBatch_Enabled == TRUE

\* SelectLatestApplicableUpdate(false), line 137
ReportUpdateNotFoundInBatch == FALSE

\* updateContext << GetInstalledPackageVersion << ReportExecutionStage <<
\* SelectLatestApplicableUpdate(false): each step runs only if the context is
\* not terminated
UpdatePipeline(ctx, sink) ==
    LET installed == IF IsTerminated(ctx) THEN ctx ELSE GetInstalledPackageVersion(ctx)
    IN  IF IsTerminated(installed)
        THEN [ctx |-> installed, out |-> sink]
        ELSE LET r == SelectLatestApplicableUpdate(installed, sink, ReportUpdateNotFoundInBatch)
             IN  [ctx |-> r.ctx, out |-> r.out]

\* what lines 146-150 read from the clone
PackageToInstallData == {"PackageVersion", "InstalledPackageVersion", "Manifest", "Installer"}

PackageToInstall(ctx, subExecutionId) ==
    [PackageVersion |-> Get(ctx, "PackageVersion"),
     InstalledPackageVersion |-> Get(ctx, "InstalledPackageVersion"),
     Manifest |-> Get(ctx, "Manifest"),
     Installer |-> Get(ctx, "Installer"),
     PackageSubExecutionId |-> subExecutionId]

Matches == Get(context, "SearchResult").Matches

Init ==
    /\ \E matches \in SearchResults :
          context = Add(NewContext, "SearchResult", [Matches |-> matches])
    /\ out = <<>>
    /\ pc = "loop"
    /\ scan = NoScan
    /\ i = 0
    /\ packagesToInstall = <<>>
    /\ updateAllFoundUpdate = FALSE
    /\ updateContexts = <<>>
    /\ installCalls = <<>>

\* One iteration of the loop, lines 124-154.  Context::Get of data the clone
\* does not hold throws, which leaves UpdateAllApplicable (pc = "fatal").
ProcessMatch ==
    /\ pc = "loop"
    /\ i < Len(Matches)
    /\ LET match == Matches[i + 1]
           r == UpdatePipeline(Add(Clone(context), "Package", match.Package), out)
           updateContext == r.ctx
       IN  /\ out' = r.out
           /\ updateContexts' = Append(updateContexts, updateContext)
           /\ i' = i + 1
           /\ IF GetTerminationHR(updateContext) = APPINSTALLER_CLI_ERROR_UPDATE_NOT_APPLICABLE
              THEN UNCHANGED <<pc, updateAllFoundUpdate, packagesToInstall>>
              ELSE /\ updateAllFoundUpdate' = TRUE
                   /\ IF PackageToInstallData \subseteq DOMAIN updateContext.data
                      THEN /\ packagesToInstall' =
                                AddToPackagesToInstallIfNotPresent(packagesToInstall,
                                    PackageToInstall(updateContext, i + 1))
                           /\ pc' = pc
                      ELSE /\ pc' = "fatal"
                           /\ UNCHANGED packagesToInstall
    /\ UNCHANGED <<context, scan, installCalls>>

\* Lines 156-167, after the loop.
FinishUpdateAll ==
    /\ pc = "loop"
    /\ i = Len(Matches)
    /\ IF ~updateAllFoundUpdate
       THEN /\ out' = Append(out, UpdateNotApplicable)
            /\ UNCHANGED <<context, installCalls>>
       ELSE /\ context' = Add(context, "PackagesToInstall", packagesToInstall)
            /\ installCalls' = Append(installCalls,
                  [packages |-> packagesToInstall,
                   dependenciesReportMessage |-> InstallAndUpgradeCommandsReportDependencies,
                   resultOnFailure |-> APPINSTALLER_CLI_ERROR_UPDATE_ALL_HAS_FAILURE,
                   ignorableInstallResults |-> {APPINSTALLER_CLI_ERROR_UPDATE_NOT_APPLICABLE}])
            /\ UNCHANGED out
    /\ pc' = "done"
    /\ UNCHANGED <<scan, i, packagesToInstall, updateAllFoundUpdate, updateContexts>>

Next ==
    \/ ProcessMatch
    \/ FinishUpdateAll

Spec == Init /\ [][Next]_vars

\* Both flows: a behaviour is one run of a single-package flow or one run of
\* UpdateAllApplicable.
InitAll == Init \/ InitSelect

NextAll == Next \/ NextSelect

SpecAll == InitAll /\ [][NextAll]_vars

----------------------------------------------------------------------------
\* Properties of the single-package flows (SpecSelect).

SelPackage == Get(context, "Package")
SelKeys == SelPackage.VersionKeys
SelInstalled == Get(context, "InstalledPackageVersion").Version

SelectionData == {"Manifest", "PackageVersion", "Installer"}

SelectSucceeded ==
    /\ ~IsTerminated(context)
    /\ SelectionData \subseteq DOMAIN context.data

SelectFailed ==
    /\ GetTerminationHR(context) = APPINSTALLER_CLI_ERROR_UPDATE_NOT_APPLICABLE
    /\ SelectionData \cap DOMAIN context.data = {}

\* key j passes the version check / has an installer for the installed package
Passes(j) == IsUpdateVersionApplicable(SelInstalled, SelKeys[j].Version)
HasInstaller(j) == \E n \in DOMAIN SelKeys[j].Installers :
                      SelKeys[j].Installers[n].Inapplicability = {}
\* the keys the scan skipped: resolved, no installer selected
SkippedKeys == {j \in DOMAIN SelKeys : (\E n \in DOMAIN scan.resolved : scan.resolved[n] = j)
                                        /\ ~HasInstaller(j)}

\* C1: SelectLatestApplicableUpdate on a context holding a Package and an
\* InstalledPackageVersion ends in exactly one of two outcomes: Manifest,
\* PackageVersion and Installer all added and the context not terminated, or
\* the context terminated with UPDATE_NOT_APPLICABLE and none of them added.
C1_SelectOutcome ==
    pc = "selected" =>
        /\ {"Package", "InstalledPackageVersion"} \subseteq DOMAIN context.data
        /\ SelectSucceeded \/ SelectFailed
        /\ ~(SelectSucceeded /\ SelectFailed)
        /\ scan.updateFound <=> SelectSucceeded

C1_Witness ==
    /\ pc = "selected"
    /\ SelKeys = <<>>
    /\ SelectFailed

\* C2: the keys are scanned in order; a key that passes the version check
\* but has no qualifying installer is skipped and the scan goes on, and the
\* key selected is the first that passes the check and has an installer.
C2_FirstInstallableSelected ==
    pc = "selected" =>
        /\ \A j \in DOMAIN SelKeys :
              ((\A m \in 1..(j - 1) : Passes(m) /\ ~HasInstaller(m)) /\ Passes(j) /\ HasInstaller(j))
              => /\ SelectSucceeded
                 /\ Get(context, "Manifest").Version = SelKeys[j].Version
                 /\ Get(context, "PackageVersion").Version = SelKeys[j].Version
                 /\ Get(context, "Installer") \in
                       {SelKeys[j].Installers[n] : n \in DOMAIN SelKeys[j].Installers}
                 /\ Get(context, "Installer").Inapplicability = {}
                 /\ scan.examined = [m \in 1..j |-> m]
        /\ SelectSucceeded =>
              \E j \in DOMAIN SelKeys :
                 /\ Passes(j) /\ HasInstaller(j)
                 /\ \A m \in 1..(j - 1) : ~(Passes(m) /\ HasInstaller(m))
                 /\ Get(context, "Manifest").Version = SelKeys[j].Version

\* installed 2.0, keys [3.0 (no qualifying installer), 2.5 (qualifies)]
C2_Witness ==
    /\ pc = "selected"
    /\ SelInstalled = Version(0, FALSE)
    /\ Len(SelKeys) = 2
    /\ SelKeys[1].Version = Version(2, FALSE) /\ ~HasInstaller(1)
    /\ SelKeys[2].Version = Version(1, FALSE) /\ HasInstaller(2)
    /\ SelectSucceeded
    /\ Get(context, "Manifest").Version = Version(1, FALSE)

\* a newer version was skipped with InstalledType the reason against each of
\* its installers, and an older version was then selected
SkippedForInstalledTypeThenSelected ==
    /\ pc = "selected"
    /\ scan.updateFound
    /\ \E j \in SkippedKeys :
          \A n \in DOMAIN SelKeys[j].Installers :
              SelKeys[j].Installers[n].Inapplicability = {InstalledType}

\* C3 as stated: in that case the older version is returned and the
\* "different install technology" message is written to the output sink.
C3_Original ==
    (SkippedForInstalledTypeThenSelected /\ scan.reportUpdateNotFound) =>
        /\ SelectSucceeded
        /\ UpgradeDifferentInstallTechnologyInNewerVersions \in {out[n] : n \in DOMAIN out}

\* C3 amended: in that case the older version is returned and nothing is
\* written to the output sink; the step writes a message only when it
\* selects no update.
C3_SelectedWritesNothing ==
    /\ SkippedForInstalledTypeThenSelected =>
          /\ SelectSucceeded
          /\ Get(context, "Manifest").Version = SelKeys[Len(scan.examined)].Version
          /\ Len(scan.examined) > 1
          /\ out = <<>>
    /\ (pc = "selected" /\ out # <<>>) => SelectFailed

C3_Witness ==
    /\ SkippedForInstalledTypeThenSelected
    /\ scan.reportUpdateNotFound
    /\ SelInstalled = Version(0, FALSE)
    /\ Len(SelKeys) = 2
    /\ SelKeys[1].Version = Version(2, FALSE)
    /\ Get(context, "Manifest").Version = Version(1, FALSE)
    /\ out = <<>>

NotApplicableReported ==
    /\ pc = "selected"
    /\ scan.reportUpdateNotFound
    /\ ~scan.updateFound

C5_StopsAtFirstInapplicableVersion ==
    pc = "selected" =>
        /\ \E n \in 0..Len(SelKeys) : scan.examined = [m \in 1..n |-> m]
        /\ \A n \in DOMAIN scan.examined :
              ~Passes(scan.examined[n]) => n = Len(scan.examined)
        /\ \A n \in DOMAIN scan.resolved : Passes(scan.resolved[n])
        /\ (SelKeys # <<>> /\ ~Passes(1)) =>
              /\ scan.examined = <<1>>
              /\ scan.resolved = <<>>
              /\ SelectFailed
              /\ out = IF scan.reportUpdateNotFound THEN <<UpdateNotApplicable>> ELSE <<>>

\* installed 2.0, keys [1.5, 1.0]
C5_Witness ==
    /\ pc = "selected"
    /\ SelInstalled = Version(2, FALSE)
    /\ Len(SelKeys) = 2
    /\ SelKeys[1].Version = Version(1, FALSE)
    /\ SelKeys[2].Version = Version(0, FALSE)
    /\ scan.examined = <<1>>
    /\ scan.resolved = <<>>
    /\ out = <<UpdateNotApplicable>>
    /\ SelectFailed

\* the version check EnsureUpdateVersionApplicable made, after "upgrade --version"
Ensured == pc = "ensured"
EnsuredVersion == Get(context, "Manifest").Version
EnsureTerminated ==
    /\ GetTerminationHR(context) = APPINSTALLER_CLI_ERROR_UPDATE_NOT_APPLICABLE
    /\ out = <<UpdateNotApplicable>>
EnsurePassed ==
    /\ ~IsTerminated(context)
    /\ out = <<>>

\* C6: for non-latest versions a < b, IsUpdateVersionApplicable(a, b) is true
\* and IsUpdateVersionApplicable(b, a) is false, and
\* IsUpdateVersionApplicable(a, a) is false; the steps that apply the
\* predicate act accordingly.
C6_ApplicableIffNewer ==
    /\ \A j \in DOMAIN SelKeys :
          LET a == SelInstalled
              b == SelKeys[j].Version
          IN  (~IsLatest(a) /\ ~IsLatest(b)) =>
                 /\ VersionLess(a, b) =>
                       IsUpdateVersionApplicable(a, b) /\ ~IsUpdateVersionApplicable(b, a)
                 /\ VersionLess(b, a) =>
                       IsUpdateVersionApplicable(b, a) /\ ~IsUpdateVersionApplicable(a, b)
                 /\ ~IsUpdateVersionApplicable(a, a)
                 /\ ~IsUpdateVersionApplicable(b, b)
    /\ (Ensured /\ ~IsLatest(SelInstalled) /\ ~IsLatest(EnsuredVersion)) =>
          IF VersionLess(SelInstalled, EnsuredVersion) THEN EnsurePassed ELSE EnsureTerminated
    /\ (pc = "selected" /\ SelKeys # <<>> /\ ~IsLatest(SelInstalled) /\ ~IsLatest(SelKeys[1].Version)) =>
          (VersionLess(SelInstalled, SelKeys[1].Version) <=> scan.resolved # <<>>)

\* the installed version re-validated against itself
C6_Witness ==
    /\ Ensured
    /\ ~IsLatest(SelInstalled)
    /\ EnsuredVersion = SelInstalled
    /\ EnsureTerminated
    /\ \E j \in DOMAIN SelKeys : VersionLess(SelInstalled, SelKeys[j].Version)

\* C7: a candidate marked latest is applicable for every installed version,
\* also when it orders lower than or equal to the installed version and when
\* the installed version is itself marked latest.
C7_LatestAlwaysApplicable ==
    /\ \A j \in DOMAIN SelKeys :
          IsLatest(SelKeys[j].Version) =>
              IsUpdateVersionApplicable(SelInstalled, SelKeys[j].Version)
    /\ (Ensured /\ IsLatest(EnsuredVersion)) => EnsurePassed
    /\ (pc = "selected" /\ SelKeys # <<>> /\ IsLatest(SelKeys[1].Version)) =>
          (scan.resolved # <<>> /\ scan.resolved[1] = 1)

C7_Witness ==
    /\ Ensured
    /\ IsLatest(EnsuredVersion)
    /\ IsLatest(SelInstalled)
    /\ VersionLess(EnsuredVersion, SelInstalled)
    /\ EnsurePassed

----------------------------------------------------------------------------
\* Properties of UpdateAllApplicable (Spec).

\* the clone of match m completed selection
CloneSucceeded(m) ==
    /\ ~IsTerminated(updateContexts[m])
    /\ PackageToInstallData \subseteq DOMAIN updateContexts[m].data

CloneNotApplicable(m) ==
    GetTerminationHR(updateContexts[m]) = APPINSTALLER_CLI_ERROR_UPDATE_NOT_APPLICABLE

SucceededClones == {m \in DOMAIN updateContexts : CloneSucceeded(m)}

\* the dedup key: (manifest Id, manifest Version, SourceIdentifier)
KeyOfClone(m) ==
    <<Get(updateContexts[m], "Manifest").Id,
      Get(updateContexts[m], "Manifest").Version,
      Get(updateContexts[m], "PackageVersion").SourceIdentifier>>

KeyOfEntry(e) == <<e.Manifest.Id, e.Manifest.Version, e.PackageVersion.SourceIdentifier>>

\* C8: after any prefix of the matches the result list has no two entries
\* with the same dedup key; the entry kept for a key is the one of the
\* earliest match with that key; entries that differ in a component of the
\* key are both kept, so the list has one entry per distinct key.
C8_NoDuplicateFirstWins ==
    /\ \A a, b \in DOMAIN packagesToInstall :
          a # b => KeyOfEntry(packagesToInstall[a]) # KeyOfEntry(packagesToInstall[b])
    /\ \A a \in DOMAIN packagesToInstall :
          LET e == packagesToInstall[a]
              m == e.PackageSubExecutionId
          IN  /\ m \in SucceededClones
              /\ e = PackageToInstall(updateContexts[m], m)
              /\ \A n \in SucceededClones : KeyOfClone(n) = KeyOfEntry(e) => m <= n
    /\ \A m \in SucceededClones :
          \E a \in DOMAIN packagesToInstall : KeyOfEntry(packagesToInstall[a]) = KeyOfClone(m)
    /\ Len(packagesToInstall) = Cardinality({KeyOfClone(m) : m \in SucceededClones})

\* three matches with an update, the third with the key of the first
C8_Witness ==
    /\ i = 3
    /\ SucceededClones = {1, 2, 3}
    /\ KeyOfClone(1) = KeyOfClone(3)
    /\ KeyOfClone(1) # KeyOfClone(2)
    /\ Len(packagesToInstall) = 2
    /\ packagesToInstall[1].PackageSubExecutionId = 1
    /\ packagesToInstall[2].PackageSubExecutionId = 2

AllClonesNotApplicable ==
    /\ Len(updateContexts) = i
    /\ \A m \in DOMAIN updateContexts : CloneNotApplicable(m)

\* C9: while every match so far ended its clone with UPDATE_NOT_APPLICABLE,
\* InstallMultiplePackages is not invoked, PackagesToInstall is not added to
\* the parent context and the per-item steps write nothing; at the end the
\* output is the single line UpdateNotApplicable.
C9_NothingToUpdateOnce ==
    AllClonesNotApplicable =>
        /\ installCalls = <<>>
        /\ ~Contains(context, "PackagesToInstall")
        /\ ~updateAllFoundUpdate
        /\ pc \in {"loop", "done"}
        /\ out = IF pc = "done" THEN <<UpdateNotApplicable>> ELSE <<>>

C9_Witness ==
    /\ pc = "done"
    /\ Len(Matches) = 3
    /\ AllClonesNotApplicable
    /\ \E m \in DOMAIN updateContexts :
          Get(updateContexts[m], "Package").VersionKeys[1].Installers[1].Inapplicability
             = {InstalledType}
    /\ out = <<UpdateNotApplicable>>
    /\ installCalls = <<>>

\* C10 as stated: a clone ended with UPDATE_NOT_APPLICABLE adds no entry and
\* does not terminate the parent; the matches are taken once each, in match
\* order, and the loop is left only when every match has been taken.
C10_Original ==
    /\ ~IsTerminated(context)
    /\ \A m \in DOMAIN updateContexts :
          CloneNotApplicable(m) =>
              \A a \in DOMAIN packagesToInstall : packagesToInstall[a].PackageSubExecutionId # m
    /\ Len(updateContexts) = i
    /\ i <= Len(Matches)
    /\ \A m \in DOMAIN updateContexts : Get(updateContexts[m], "Package") = Matches[m].Package
    /\ pc # "loop" => i = Len(Matches)

\* the clone of match m was terminated with a code other than
\* UPDATE_NOT_APPLICABLE
CloneFailed(m) ==
    /\ IsTerminated(updateContexts[m])
    /\ ~CloneNotApplicable(m)

\* C11 as stated: an entry is built only for a clone that completed
\* selection; a clone terminated with another code than
\* UPDATE_NOT_APPLICABLE is a failure of that item only: nothing is built
\* from its missing data and the remaining matches are still processed.
C11_Original ==
    /\ \A a \in DOMAIN packagesToInstall :
          packagesToInstall[a].PackageSubExecutionId \in SucceededClones
    /\ \A m \in DOMAIN updateContexts :
          CloneFailed(m) =>
              /\ pc \in {"loop", "done"}
              /\ pc = "done" => i = Len(Matches)
              /\ \A a \in DOMAIN packagesToInstall :
                    packagesToInstall[a].PackageSubExecutionId # m

\* C12 as stated: a clone that adds data or terminates never changes the
\* parent's data store or termination slot, nor another clone; after a clone
\* failed, the parent creates and evaluates the next clone, which starts
\* without the failed clone's data and not terminated.
C12_Original ==
    /\ ~IsTerminated(context)
    /\ DOMAIN context.data \subseteq {"SearchResult", "PackagesToInstall"}
    /\ Contains(context, "PackagesToInstall") => pc = "done"
    /\ \A m \in DOMAIN updateContexts :
          /\ Get(updateContexts[m], "Package") = Matches[m].Package
          /\ Contains(updateContexts[m], "InstalledPackageVersion") =>
                Get(updateContexts[m], "InstalledPackageVersion")
                   = GetInstalledVersion(Matches[m].Package)
          /\ Contains(updateContexts[m], "Manifest") =>
                Get(updateContexts[m], "Manifest").Id = Matches[m].Package.Id
          /\ (IsTerminated(updateContexts[m]) /\ m < Len(Matches)) =>
                (m + 1 \in DOMAIN updateContexts \/ pc = "loop")

\* C15 as stated: InstallMultiplePackages is invoked iff at least one match
\* produced a selectable update; if none did, whether the clones ended with
\* UPDATE_NOT_APPLICABLE or with another termination, "nothing to update" is
\* reported and the collaborator is not invoked; either is decided only
\* after every match has been processed.
C15_Original ==
    /\ (installCalls # <<>> \/ out # <<>>) => i = Len(Matches)
    /\ installCalls # <<>> => SucceededClones # {}
    /\ (pc # "loop" /\ SucceededClones # {}) => Len(installCalls) = 1
    /\ (pc # "loop" /\ SucceededClones = {}) =>
          /\ installCalls = <<>>
          /\ out = <<UpdateNotApplicable>>

----------------------------------------------------------------------------
\* Further properties of the single-package flows (SpecSelect).

\* C14 as stated: with the keys sorted strictly newest to oldest, whenever
\* SelectLatestApplicableUpdate ends with UPDATE_NOT_APPLICABLE no key of the
\* package, at any position and the latest sentinel included, both passes
\* the version check and has a qualifying installer.
C14_Original ==
    (pc = "selected" /\ SelectFailed) =>
        \A j \in DOMAIN SelKeys : ~(Passes(j) /\ HasInstaller(j))

\* C16: EnsureUpdateVersionApplicable terminates the context with
\* UPDATE_NOT_APPLICABLE and writes the generic message once iff
\* IsUpdateVersionApplicable(installed version, manifest version) is false;
\* when it is true the step writes nothing and leaves the context as it was.
C16_EnsureIffNotApplicable ==
    [][RunEnsureUpdateVersionApplicable =>
        IF IsUpdateVersionApplicable(SelInstalled, Get(context, "Manifest").Version)
        THEN /\ context' = context
             /\ out' = out
        ELSE /\ GetTerminationHR(context') = APPINSTALLER_CLI_ERROR_UPDATE_NOT_APPLICABLE
             /\ context'.data = context.data
             /\ out' = Append(out, UpdateNotApplicable)]_vars

\* an older version re-validated: terminated, one line written
C16_Witness ==
    /\ Ensured
    /\ VersionLess(EnsuredVersion, SelInstalled)
    /\ ~IsLatest(EnsuredVersion)
    /\ EnsureTerminated

----------------------------------------------------------------------------
\* Properties of both flows (SpecAll).

InSelectFlow == pc \in {"select", "selected", "manifest", "ensured", "selected-ensured"}
InUpdateAll == pc \in {"loop", "done", "fatal"}

NotFoundMessages == {UpgradeDifferentInstallTechnologyInNewerVersions, UpdateNotApplicable}

\* C17: one run of SelectLatestApplicableUpdate writes at most one line:
\* exactly one, a not-found message, when no update is found and reporting
\* is enabled; none when an update is selected or reporting is disabled, as
\* for every clone of the batch; never both messages.
C17_AtMostOneLine ==
    /\ pc = "selected" =>
          /\ Len(out) <= 1
          /\ Len(out) = 1 <=> (~scan.updateFound /\ scan.reportUpdateNotFound)
          /\ \A n \in DOMAIN out : out[n] \in NotFoundMessages
          /\ ~(NotFoundMessages \subseteq {out[n] : n \in DOMAIN out})
    /\ (InUpdateAll /\ pc # "done") => out = <<>>
    /\ pc = "done" => out = IF updateAllFoundUpdate THEN <<>> ELSE <<UpdateNotApplicable>>

\* reporting disabled, no update found, nothing written
C17_Witness ==
    /\ pc = "selected"
    /\ ~scan.reportUpdateNotFound
    /\ ~scan.updateFound
    /\ scan.installedTypeInapplicable
    /\ out = <<>>

CoreCodes == {S_OK, APPINSTALLER_CLI_ERROR_UPDATE_NOT_APPLICABLE}

\* C18: the only termination code SelectLatestApplicableUpdate,
\* EnsureUpdateVersionApplicable and the loop of UpdateAllApplicable set on a
\* context is UPDATE_NOT_APPLICABLE: a context that reached one of them is
\* unterminated or carries that code, and the parent of the batch is never
\* terminated.  UPDATE_ALL_HAS_FAILURE is on no context; it is the failure
\* code of each InstallMultiplePackages call, whose ignorable set contains
\* UPDATE_NOT_APPLICABLE.
C18_OnlyUpdateNotApplicable ==
    /\ GetTerminationHR(context) # APPINSTALLER_CLI_ERROR_UPDATE_ALL_HAS_FAILURE
    /\ InSelectFlow => GetTerminationHR(context) \in CoreCodes
    /\ InUpdateAll =>
          /\ ~IsTerminated(context)
          /\ \A m \in DOMAIN updateContexts :
                /\ GetTerminationHR(updateContexts[m]) # APPINSTALLER_CLI_ERROR_UPDATE_ALL_HAS_FAILURE
                /\ Contains(updateContexts[m], "InstalledPackageVersion") =>
                      GetTerminationHR(updateContexts[m]) \in CoreCodes
                /\ GetTerminationHR(updateContexts[m]) \notin CoreCodes =>
                      /\ GetTerminationHR(updateContexts[m]) = E_FAIL
                      /\ Get(updateContexts[m], "Package").Installed = NoInstalledVersion
    /\ \A n \in DOMAIN installCalls :
          /\ installCalls[n].resultOnFailure = APPINSTALLER_CLI_ERROR_UPDATE_ALL_HAS_FAILURE
          /\ APPINSTALLER_CLI_ERROR_UPDATE_NOT_APPLICABLE \in installCalls[n].ignorableInstallResults
    /\ (pc = "done" /\ updateAllFoundUpdate) => Len(installCalls) = 1

\* a batch with a clone terminated by the scan, and the install call made
C18_Witness ==
    /\ pc = "done"
    /\ Len(installCalls) = 1
    /\ \E m \in DOMAIN updateContexts : CloneNotApplicable(m)
    /\ \E m \in DOMAIN updateContexts : CloneSucceeded(m)

\* the predicate of line 19, written out
NewerOrLatest(installedVersion, updateVersion) ==
    \/ installedVersion.n < updateVersion.n
    \/ updateVersion.latest

\* C19: when SelectLatestApplicableUpdate succeeds, the selected version is
\* newer than the installed one or is the latest sentinel, so
\* EnsureUpdateVersionApplicable run on that context afterwards leaves it
\* unterminated and writes nothing; every entry of the batch built from a
\* succeeded clone pairs that clone's installed version with such a version.
C19_SelectedIsApplicable ==
    /\ (pc \in {"selected", "selected-ensured"} /\ scan.updateFound) =>
          /\ NewerOrLatest(SelInstalled, Get(context, "Manifest").Version)
          /\ Get(context, "PackageVersion").Version = Get(context, "Manifest").Version
    /\ pc = "selected-ensured" =>
          /\ scan.updateFound
          /\ SelectSucceeded
          /\ out = <<>>
    /\ InUpdateAll =>
          /\ \A m \in SucceededClones :
                NewerOrLatest(Get(updateContexts[m], "InstalledPackageVersion").Version,
                              Get(updateContexts[m], "Manifest").Version)
          /\ \A a \in DOMAIN packagesToInstall :
                LET e == packagesToInstall[a]
                IN  /\ NewerOrLatest(e.InstalledPackageVersion.Version, e.Manifest.Version)
                    /\ e.PackageSubExecutionId \in SucceededClones
                    /\ e.InstalledPackageVersion =
                          GetInstalledVersion(Matches[e.PackageSubExecutionId].Package)
                    /\ e.Manifest = Get(updateContexts[e.PackageSubExecutionId], "Manifest")

\* an older version marked latest was selected, and the check then passed
C19_Witness ==
    /\ pc = "selected-ensured"
    /\ SelInstalled = Version(1, FALSE)
    /\ Get(context, "Manifest").Version = Version(0, TRUE)
    /\ ~IsTerminated(context)

----------------------------------------------------------------------------
\* A further property of UpdateAllApplicable (Spec).

\* C20: when InstallMultiplePackages is invoked, the PackagesToInstall list
\* added to the parent is the one passed, is not empty, and its entries are
\* in the order of the matches they were built from; a step that makes no
\* install call, the "nothing to update" return among them, leaves the
\* parent's data store and termination slot as they were, unterminated.
C20_InstallListOrdered ==
    /\ [](installCalls # <<>> =>
            /\ Len(installCalls) = 1
            /\ Contains(context, "PackagesToInstall")
            /\ Get(context, "PackagesToInstall") = installCalls[1].packages
            /\ Get(context, "PackagesToInstall") = packagesToInstall
            /\ packagesToInstall # <<>>
            /\ \A a, b \in DOMAIN packagesToInstall :
                  a < b => packagesToInstall[a].PackageSubExecutionId
                              < packagesToInstall[b].PackageSubExecutionId
            /\ \A a \in DOMAIN packagesToInstall :
                  LET m == packagesToInstall[a].PackageSubExecutionId
                  IN  /\ m \in SucceededClones
                      /\ packagesToInstall[a] = PackageToInstall(updateContexts[m], m))
    /\ []((pc = "done" /\ installCalls = <<>>) =>
            /\ ~updateAllFoundUpdate
            /\ ~IsTerminated(context)
            /\ DOMAIN context.data = {"SearchResult"})
    /\ [][installCalls' = <<>> => context' = context]_vars

\* two entries from the first and the third match, the second not applicable
C20_Witness ==
    /\ pc = "done"
    /\ Len(installCalls) = 1
    /\ Len(Get(context, "PackagesToInstall")) = 2
    /\ Get(context, "PackagesToInstall")[1].PackageSubExecutionId = 1
    /\ Get(context, "PackagesToInstall")[2].PackageSubExecutionId = 3

====
